---- MODULE Spec2Model ----
(***************************************************************************)
(* pyvoa: the error-reporting module (pyvoa/error.py, compiled) and the    *)
(* geographic name resolution its example notebook exercises.              *)
(*                                                                         *)
(* Strings are sequences of one-character strings, so that centring,       *)
(* lower-casing, int() and str() are computed the way the interpreter      *)
(* computes them.  ESC stands for the byte 0x1b.                           *)
(***************************************************************************)
EXTENDS Integers, Sequences, FiniteSets, TLC

(* ---------------------------------------------------------------------- *)
(* Bounds of the exploration                                               *)
(* ---------------------------------------------------------------------- *)
\* longest caller message explored
MaxMsgLen == 1
\* widest terminal explored; the widths tried are 1, MaxCols - 1 and MaxCols
MaxCols == 16
\* longest list handed to to_standard
MaxListLen == 2

(* ---------------------------------------------------------------------- *)
(* The state                                                               *)
(* ---------------------------------------------------------------------- *)
VARIABLES
    status,     \* "running", or "exited" once the interpreter has ended
    exit_code,  \* the exit status of the ended process (-1 while it runs)
    caller,     \* the statement the caller is executing
    stack,      \* the call stack below the caller, innermost frame last
    exc,        \* the exception in flight, if any
    out,        \* the lines written to sys.stdout by the caller's statement
    style,      \* the rendition the terminal is left in
    last,       \* the latest call of blinking_centered_text made by the
                \* caller's statement: its arguments, the "stty size" output
                \* it read, the lines it wrote
    prev,       \* the call of blinking_centered_text before that one: of the
                \* same statement, or (while keep holds) of the one before
    keep,       \* whether calls are kept from one statement to the next
    query,      \* the geographic request being resolved
    result,     \* its answer
    seen        \* the latest earlier request for a single name, with its answer

evars == <<status, exit_code, caller, stack, exc, out, style, last, prev, keep>>
gvars == <<query, result, seen>>
vars == <<status, exit_code, caller, stack, exc, out, style, last, prev, keep,
          query, result, seen>>

(* ---------------------------------------------------------------------- *)
(* Characters and the str methods used by the module                       *)
(* ---------------------------------------------------------------------- *)
ESC == "ESC"
NL == "\n"
SP == " "

Uppers == <<"A","B","C","D","E","F","G","H","I","J","K","L","M",
            "N","O","P","Q","R","S","T","U","V","W","X","Y","Z">>
Lowers == <<"a","b","c","d","e","f","g","h","i","j","k","l","m",
            "n","o","p","q","r","s","t","u","v","w","x","y","z">>
DigitChars == <<"0","1","2","3","4","5","6","7","8","9">>

\* the lower-case letter of each upper-case letter
LowerOf == [c \in {Uppers[i] : i \in DOMAIN Uppers} |->
               Lowers[CHOOSE i \in DOMAIN Uppers : Uppers[i] = c]]

\* str.lower() on one character
LowerChar(c) == IF c \in DOMAIN LowerOf THEN LowerOf[c] ELSE c

\* str.lower()
Lower(s) == [i \in DOMAIN s |-> LowerChar(s[i])]

IsDigit(c) == \E i \in DOMAIN DigitChars : DigitChars[i] = c
DigitVal(c) == (CHOOSE i \in DOMAIN DigitChars : DigitChars[i] = c) - 1

\* int(s) succeeds (decimal digits only: the fields come from split(), so
\* they carry no white space)
IsInt(s) == Len(s) > 0 /\ \A i \in DOMAIN s : IsDigit(s[i])

RECURSIVE IntOf(_)
\* int(s) for a string of decimal digits
IntOf(s) ==
    IF Len(s) = 0 THEN 0
    ELSE 10 * IntOf(SubSeq(s, 1, Len(s) - 1)) + DigitVal(s[Len(s)])

RECURSIVE StrOf(_)
\* str(n) for n >= 0
StrOf(n) ==
    IF n < 10 THEN <<DigitChars[n + 1]>>
    ELSE StrOf(n \div 10) \o <<DigitChars[(n % 10) + 1]>>

Spaces(n) == [i \in 1..n |-> SP]

\* str.center(width) with the default fill character:
\* marg = width - len; left = marg/2 + (marg & width & 1)
Center(s, width) ==
    IF Len(s) >= width THEN s
    ELSE LET marg == width - Len(s)
             left == (marg \div 2) + (IF marg % 2 = 1 /\ width % 2 = 1 THEN 1 ELSE 0)
         IN  Spaces(left) \o s \o Spaces(marg - left)

(* ---------------------------------------------------------------------- *)
(* blinking_centered_text: colour tables                                   *)
(* ---------------------------------------------------------------------- *)
black == <<"b","l","a","c","k">>
red == <<"r","e","d">>
green == <<"g","r","e","e","n">>
yellow == <<"y","e","l","l","o","w">>
blue == <<"b","l","u","e">>
magenta == <<"m","a","g","e","n","t","a">>
cyan == <<"c","y","a","n">>
white == <<"w","h","i","t","e">>
default == <<"d","e","f","a","u","l","t">>

ColorNames == {black, red, green, yellow, blue, magenta, cyan, white, default}

\* color_codes = {'black': '30', ..., 'white': '37', 'default': '39'}
color_codes ==
    [n \in ColorNames |->
        CASE n = black -> <<"3","0">>
          [] n = red -> <<"3","1">>
          [] n = green -> <<"3","2">>
          [] n = yellow -> <<"3","3">>
          [] n = blue -> <<"3","4">>
          [] n = magenta -> <<"3","5">>
          [] n = cyan -> <<"3","6">>
          [] n = white -> <<"3","7">>
          [] n = default -> <<"3","9">>]

\* the offset added to a foreground code to get the background code
BgOffset == 10

\* bg_codes = {name: str(int(code) + 10) for name, code in color_codes.items()}
bg_codes == [n \in ColorNames |-> StrOf(IntOf(color_codes[n]) + BgOffset)]

\* dict.get(key, fallback)
DictGet(d, key, fallback) == IF key \in DOMAIN d THEN d[key] ELSE fallback

\* mutant: the text colour is looked up as it is written
TextCodeExact(text_color) == DictGet(color_codes, text_color, color_codes[white])

\* text_code = color_codes.get(text_color.lower(), color_codes["white"])
TextCode(text_color) == DictGet(color_codes, Lower(text_color), color_codes[white])

\* bg_code = bg_codes.get(bg_color.lower(), bg_codes["red"])
BgCode(bg_color) == DictGet(bg_codes, Lower(bg_color), bg_codes[red])

\* bool(x) for the integers handed over as "blinking"
Truthy(x) == x # 0

\* mutant: "if blinking == 1" in place of "if blinking"
AnsiStartOnlyOne(blinking, text_code, bg_code) ==
    IF blinking = 1
    THEN <<ESC, "[", "5", ";">> \o text_code \o <<";">> \o bg_code \o <<"m">>
    ELSE <<ESC, "[", ";">> \o text_code \o <<";">> \o bg_code \o <<"m">>

\* ansi_start: "\033[5;{text_code};{bg_code}m" if blinking else "\033[;{text_code};{bg_code}m"
AnsiStart(blinking, text_code, bg_code) ==
    IF Truthy(blinking)
    THEN <<ESC, "[", "5", ";">> \o text_code \o <<";">> \o bg_code \o <<"m">>
    ELSE <<ESC, "[", ";">> \o text_code \o <<";">> \o bg_code \o <<"m">>

\* mutant: the reset sequence is left out
AnsiResetMissing == <<>>

\* ansi_reset = "\033[0m"
AnsiReset == <<ESC, "[", "0", "m">>

\* f"{ansi_start}{text}{ansi_reset}\n"
Line(ansi_start, text) == ansi_start \o text \o AnsiReset \o <<NL>>

(* ---------------------------------------------------------------------- *)
(* The terminal: what "stty size" prints, and how it renders the output    *)
(* ---------------------------------------------------------------------- *)
Rows == <<"2","4">>
Garbage == <<"x">>

Widths == {1, MaxCols - 1, MaxCols}

\* what os.popen('stty size', 'r').read() can return: nothing (no terminal),
\* "rows cols", a width that is no integer, three fields, rows no integer
SttyOutputs ==
    {<<>>}
    \cup {Rows \o <<SP>> \o StrOf(w) \o <<NL>> : w \in Widths}
    \cup {Rows \o <<SP>> \o Garbage \o <<NL>>,
          Rows \o <<SP>> \o StrOf(MaxCols) \o <<SP>> \o Rows \o <<NL>>,
          Garbage \o <<SP>> \o StrOf(MaxCols) \o <<NL>>}

IsSpace(c) == c = SP \/ c = NL

RECURSIVE Split(_)
\* str.split() without argument: the maximal runs of non-space characters
Split(s) ==
    IF Len(s) = 0 THEN <<>>
    ELSE IF IsSpace(s[1]) THEN Split(Tail(s))
    ELSE LET stops == {i \in DOMAIN s : IsSpace(s[i])}
             e == IF stops = {} THEN Len(s) + 1
                  ELSE CHOOSE i \in stops : \A j \in stops : i <= j
         IN  <<SubSeq(s, 1, e - 1)>> \o Split(SubSeq(s, e, Len(s)))

\* mutant: "except OSError:" in place of the bare "except:"
CatchesOSErrorOnly(exctype) == exctype = "OSError"

\* the bare "except:" of blinking_centered_text catches every exception
Catches(exctype) == TRUE

\* mutant: the width is read once and cached at module level, so a later call
\* centres to what an earlier call read
TryBlockCached(typemsg, message, raw) ==
    LET fields == Split(IF prev.valid THEN prev.stty ELSE raw) IN
    IF Len(fields) # 2 \/ ~IsInt(fields[Len(fields)])
    THEN [typemsg |-> typemsg, message |-> message, raised |-> "none"]
    ELSE [typemsg |-> Center(typemsg, IntOf(fields[2])),
          message |-> Center(message, IntOf(fields[2])),
          raised |-> "none"]

\* the try block: rows, columns = ...read().split(); columns = int(columns);
\* typemsg = typemsg.center(columns); message = message.center(columns)
TryBlock(typemsg, message, raw) ==
    LET fields == Split(raw) IN
    IF Len(fields) # 2
    THEN [typemsg |-> typemsg, message |-> message, raised |-> "ValueError"]
    ELSE IF ~IsInt(fields[2])
    THEN [typemsg |-> typemsg, message |-> message, raised |-> "ValueError"]
    ELSE LET columns == IntOf(fields[2]) IN
         [typemsg |-> Center(typemsg, columns),
          message |-> Center(message, columns),
          raised |-> "none"]

\* the rendition a terminal keeps between characters
DefaultStyle == [blink |-> FALSE, fg |-> <<"3","9">>, bg |-> <<"4","9">>]

RECURSIVE SplitSemi(_)
\* the parameters of a control sequence, separated by ";"
SplitSemi(s) ==
    LET stops == {i \in DOMAIN s : s[i] = ";"} IN
    IF stops = {} THEN <<s>>
    ELSE LET e == CHOOSE i \in stops : \A j \in stops : i <= j
         IN  <<SubSeq(s, 1, e - 1)>> \o SplitSemi(SubSeq(s, e + 1, Len(s)))

\* one parameter of "select graphic rendition"
ApplyParam(st, p) ==
    IF p = <<>> \/ p = <<"0">> THEN DefaultStyle
    ELSE IF p = <<"5">> THEN [st EXCEPT !.blink = TRUE]
    ELSE IF Len(p) = 2 /\ p[1] = "3" THEN [st EXCEPT !.fg = p]
    ELSE IF Len(p) = 2 /\ p[1] = "4" THEN [st EXCEPT !.bg = p]
    ELSE st

RECURSIVE ApplySgr(_, _)
ApplySgr(st, params) ==
    IF params = <<>> THEN st
    ELSE ApplySgr(ApplyParam(st, Head(params)), Tail(params))

RECURSIVE Term(_, _)
\* the rendition after the terminal has consumed the characters s
Term(st, s) ==
    IF Len(s) = 0 THEN st
    ELSE IF s[1] = ESC /\ Len(s) >= 2 /\ s[2] = "["
    THEN LET ends == {i \in 3..Len(s) : s[i] = "m"} IN
         IF ends = {} THEN st
         ELSE LET e == CHOOSE i \in ends : \A j \in ends : i <= j
              IN  Term(ApplySgr(st, SplitSemi(SubSeq(s, 3, e - 1))),
                       SubSeq(s, e + 1, Len(s)))
    ELSE Term(st, Tail(s))

(* ---------------------------------------------------------------------- *)
(* The classes                                                             *)
(* ---------------------------------------------------------------------- *)
BCT == "blinking_centered_text"

NonFatal == {"CoaInfo", "CoaDBInfo", "CoaWarning"}
ErrorSubclasses == {"CoaNoData", "CoaWhereError", "CoaTypeError", "CoaLookupError",
                    "CoaNotManagedError", "CoaDbError", "CoaConnectionError"}
Fatal == {"CoaError"} \cup ErrorSubclasses
Kinds == NonFatal \cup Fatal

\* class X(bases): the base classes, the built-in ones included
Bases(cls) ==
    CASE cls \in NonFatal -> <<"Exception">>
      [] cls = "CoaError" -> <<"Exception">>
      [] cls \in {"CoaNoData", "CoaWhereError"} -> <<"CoaError", "IndexError">>
      [] cls = "CoaTypeError" -> <<"CoaError", "TypeError">>
      [] cls = "CoaLookupError" -> <<"CoaError", "LookupError">>
      [] cls \in {"CoaNotManagedError", "CoaDbError"} -> <<"CoaError">>
      [] cls = "CoaConnectionError" -> <<"CoaError", "ConnectionError">>
      [] cls = "IndexError" -> <<"LookupError">>
      [] cls \in {"LookupError", "TypeError", "ValueError", "OSError"} -> <<"Exception">>
      [] cls = "ConnectionError" -> <<"OSError">>
      [] cls \in {"Exception", "SystemExit"} -> <<"BaseException">>
      [] OTHER -> <<>>

RECURSIVE IsSubclass(_, _)
\* issubclass(c, d), which is what an "except d" clause tests
IsSubclass(c, d) ==
    c = d \/ \E i \in DOMAIN Bases(c) : IsSubclass(Bases(c)[i], d)

InfoTitle == <<"P","Y","C","O","A"," ","I","n","f","o"," ","!">>
WarningTitle == <<"P","Y","C","O","A"," ","W","a","r","n","i","n","g"," ","!">>
ErrorTitle == <<"P","Y","C","O","A"," ","E","r","r","o","r"," ","!">>

\* mutant: CoaWarning announces itself with the title of CoaInfo
BannerArgsWarningAsInfo(cls, msg) ==
    CASE cls \in NonFatal ->
           [typemsg |-> InfoTitle, message |-> msg, blinking |-> 0,
            text_color |-> white, bg_color |-> IF cls = "CoaDBInfo" THEN blue ELSE magenta]
      [] OTHER ->
           [typemsg |-> ErrorTitle, message |-> msg, blinking |-> 1,
            text_color |-> white, bg_color |-> red]

\* the arguments each constructor hands to blinking_centered_text
BannerArgs(cls, msg) ==
    CASE cls = "CoaInfo" ->
           [typemsg |-> InfoTitle, message |-> msg, blinking |-> 0,
            text_color |-> white, bg_color |-> magenta]
      [] cls = "CoaDBInfo" ->
           [typemsg |-> InfoTitle, message |-> msg, blinking |-> 0,
            text_color |-> white, bg_color |-> blue]
      [] cls = "CoaWarning" ->
           [typemsg |-> WarningTitle, message |-> msg, blinking |-> 0,
            text_color |-> white, bg_color |-> magenta]
      [] OTHER ->
           [typemsg |-> ErrorTitle, message |-> msg, blinking |-> 1,
            text_color |-> white, bg_color |-> red]

\* mutant: CoaError.__init__ builds the exception and returns, without sys.exit
BodyErrorReturns(cls) ==
    CASE cls \in NonFatal -> <<"banner", "builtin">>
      [] cls = "CoaError" -> <<"banner", "builtin">>
      [] cls \in {"CoaNotManagedError", "CoaDbError"} -> <<"banner", "chain">>
      [] OTHER -> <<"banner", "builtin", "chain">>

\* mutant: CoaError.__init__ calls sys.exit before it prints
BodyExitBeforeBanner(cls) ==
    CASE cls \in NonFatal -> <<"banner", "builtin">>
      [] cls = "CoaError" -> <<"exit", "banner">>
      [] cls \in {"CoaNotManagedError", "CoaDbError"} -> <<"banner", "chain">>
      [] OTHER -> <<"banner", "builtin", "chain">>

\* mutant: the subclasses leave the banner to CoaError.__init__
BodySubclassSilent(cls) ==
    CASE cls \in NonFatal -> <<"banner", "builtin">>
      [] cls = "CoaError" -> <<"banner", "exit">>
      [] cls \in {"CoaNotManagedError", "CoaDbError"} -> <<"chain">>
      [] OTHER -> <<"builtin", "chain">>

\* the statements of each __init__, in order:
\*   "banner"  blinking_centered_text(title, message, ...)
\*   "builtin" Exception(message) / IndexError(message) / ...: an instance is
\*             built and dropped
\*   "chain"   CoaError(message): an instance of CoaError is constructed
\*   "exit"    sys.exit(0)
Body(cls) ==
    CASE cls \in NonFatal -> <<"banner", "builtin">>
      [] cls = "CoaError" -> <<"banner", "exit">>
      [] cls \in {"CoaNotManagedError", "CoaDbError"} -> <<"banner", "chain">>
      [] OTHER -> <<"banner", "builtin", "chain">>

\* mutant: sys.exit(1)
ExitArgOne == 0 + 1

\* the argument of sys.exit in CoaError.__init__
ExitArg == 0

(* ---------------------------------------------------------------------- *)
(* The process: a caller that builds notifications, one statement a step   *)
(* ---------------------------------------------------------------------- *)
MsgChars == {"n", "o"}
Messages == UNION {[1..n -> MsgChars] : n \in 0..MaxMsgLen}

Modes == {"call", "try_raise"}

NoArgs == [typemsg |-> <<>>, message |-> <<>>, blinking |-> 0,
           text_color |-> <<>>, bg_color |-> <<>>]
NoCall == [valid |-> FALSE, args |-> NoArgs, stty |-> <<>>, lines |-> <<>>]
NoExc == [type |-> "none", code |-> 0, raised_in |-> "", depth |-> 0]
\* the caller between two statements; earlier: what its last statement built
\* or called ("" when there was none)
Idle(earlier) == [pc |-> "idle", mode |-> "call", kind |-> "", message |-> <<>>,
                  handled |-> FALSE, earlier |-> earlier]

\* the arguments tried in direct calls of blinking_centered_text; "37" and
\* "41" are the defaults of text_color and bg_color
DirectTitle == <<"H","i">>
\* the values of "blinking" tried: the default 0, the 1 of CoaError, and
\* another integer that is true
Blinkings == {0, 1, 2}
DirectColors == {<<<<"3","7">>, <<"4","1">>>>, <<<<"B","l","u","e">>, <<"C","Y","A","N">>>>}
DirectArgs ==
    {[typemsg |-> DirectTitle, message |-> m, blinking |-> b,
      text_color |-> c[1], bg_color |-> c[2]] :
        m \in Messages, b \in Blinkings, c \in DirectColors}

CtorFrame(cls, msg) ==
    [fn |-> cls, args |-> [NoArgs EXCEPT !.message = msg],
     typemsg |-> <<>>, message |-> msg, ansi_start |-> <<>>, ip |-> 1]

BctFrame(a) ==
    [fn |-> BCT, args |-> a, typemsg |-> a.typemsg, message |-> a.message,
     ansi_start |-> <<>>, ip |-> 1]

Top == stack[Len(stack)]
Pop == SubSeq(stack, 1, Len(stack) - 1)
Running == status = "running" /\ exc.type = "none"
InCtor == Running /\ stack # <<>> /\ Top.fn \in Kinds
InBct == Running /\ stack # <<>> /\ Top.fn = BCT
Stmt == IF Top.ip <= Len(Body(Top.fn)) THEN Body(Top.fn)[Top.ip] ELSE "return"
Advance == [stack EXCEPT ![Len(stack)].ip = @ + 1]

NoQuery == [op |-> "none", names |-> <<>>, interpret_region |-> FALSE]
NoResult == [ok |-> TRUE, value |-> <<>>, raised |-> "none"]

EInit ==
    /\ status = "running"
    /\ exit_code = -1
    /\ caller = Idle("")
    /\ stack = <<>>
    /\ exc = NoExc
    /\ out = <<>>
    /\ style = DefaultStyle
    /\ last = NoCall
    /\ prev = NoCall

GInit ==
    /\ query = NoQuery
    /\ result = NoResult
    /\ seen = [query |-> NoQuery, result |-> NoResult]

Init == EInit /\ GInit /\ keep = FALSE

\* the caller evaluates K(msg), as a statement of its own or as the operand
\* of "raise" inside try: ... except CoaError: ...
Construct(cls, msg, mode) ==
    /\ Running /\ caller.pc = "idle"
    /\ caller' = [pc |-> "constructing", mode |-> mode, kind |-> cls, message |-> msg,
                  handled |-> FALSE, earlier |-> caller.earlier]
    /\ stack' = <<CtorFrame(cls, msg)>>
    /\ out' = <<>>
    /\ prev' = IF keep THEN last ELSE NoCall
    /\ last' = NoCall
    /\ UNCHANGED <<status, exit_code, exc, style, keep, gvars>>

\* the caller calls blinking_centered_text itself
DirectCall(a) ==
    /\ Running /\ caller.pc = "idle"
    /\ caller' = [pc |-> "calling", mode |-> "call", kind |-> BCT, message |-> a.message,
                  handled |-> FALSE, earlier |-> caller.earlier]
    /\ stack' = <<BctFrame(a)>>
    /\ out' = <<>>
    /\ prev' = IF keep THEN last ELSE NoCall
    /\ last' = [valid |-> TRUE, args |-> a, stty |-> <<>>, lines |-> <<>>]
    /\ UNCHANGED <<status, exit_code, exc, style, keep, gvars>>

\* __init__: blinking_centered_text('PYCOA ... !', message, blinking=..., ...)
CallBanner ==
    /\ InCtor /\ Stmt = "banner"
    /\ LET a == BannerArgs(Top.fn, Top.message) IN
       /\ stack' = Append(Advance, BctFrame(a))
       /\ prev' = IF last.valid THEN last ELSE prev
       /\ last' = [valid |-> TRUE, args |-> a, stty |-> <<>>, lines |-> <<>>]
    /\ UNCHANGED <<status, exit_code, caller, exc, out, style, keep, gvars>>

\* blinking_centered_text up to the first write: the colour codes, the try
\* block around "stty size" and the centring, ansi_start
Format(raw) ==
    /\ InBct /\ Top.ip = 1
    /\ LET r == TryBlock(Top.typemsg, Top.message, raw) IN
       IF r.raised # "none" /\ ~Catches(r.raised)
       THEN /\ exc' = [type |-> r.raised, code |-> 0, raised_in |-> BCT,
                       depth |-> Len(stack)]
            /\ stack' = stack
       ELSE /\ exc' = exc
            /\ stack' = [stack EXCEPT ![Len(stack)] =
                   [@ EXCEPT !.typemsg = r.typemsg, !.message = r.message,
                             !.ansi_start = AnsiStart(Top.args.blinking,
                                                      TextCode(Top.args.text_color),
                                                      BgCode(Top.args.bg_color)),
                             !.ip = 2]]
    /\ last' = [last EXCEPT !.stty = raw]
    /\ UNCHANGED <<status, exit_code, caller, out, style, prev, keep, gvars>>

\* sys.stdout.write(f'{ansi_start}{typemsg}{ansi_reset}\n')
WriteTitle ==
    /\ InBct /\ Top.ip = 2
    /\ LET line == Line(Top.ansi_start, Top.typemsg) IN
       /\ out' = Append(out, line)
       /\ style' = Term(style, line)
       /\ last' = [last EXCEPT !.lines = Append(@, line)]
    /\ stack' = Advance
    /\ UNCHANGED <<status, exit_code, caller, exc, prev, keep, gvars>>

\* sys.stdout.write(f'{ansi_start}{message}{ansi_reset}\n'), and the return
WriteMessage ==
    /\ InBct /\ Top.ip = 3
    /\ LET line == Line(Top.ansi_start, Top.message) IN
       /\ out' = Append(out, line)
       /\ style' = Term(style, line)
       /\ last' = [last EXCEPT !.lines = Append(@, line)]
    /\ stack' = Pop
    /\ caller' = IF Len(stack) = 1 THEN Idle(caller.kind) ELSE caller
    /\ UNCHANGED <<status, exit_code, exc, prev, keep, gvars>>

\* __init__: Exception(message), IndexError(message), ...: built and dropped
BuiltinInit ==
    /\ InCtor /\ Stmt = "builtin"
    /\ stack' = Advance
    /\ UNCHANGED <<status, exit_code, caller, exc, out, style, last, prev, keep, gvars>>

\* __init__ of a subclass: CoaError(message)
Chain ==
    /\ InCtor /\ Stmt = "chain"
    /\ stack' = Append(Advance, CtorFrame("CoaError", Top.message))
    /\ UNCHANGED <<status, exit_code, caller, exc, out, style, last, prev, keep, gvars>>

\* CoaError.__init__: sys.exit(0), which raises SystemExit(0)
SysExit ==
    /\ InCtor /\ Stmt = "exit"
    /\ exc' = [type |-> "SystemExit", code |-> ExitArg, raised_in |-> Top.fn,
               depth |-> Len(stack)]
    /\ UNCHANGED <<status, exit_code, caller, stack, out, style, last, prev, keep, gvars>>

\* the end of an __init__: the instance goes to whoever built it
Return ==
    /\ InCtor /\ Stmt = "return"
    /\ stack' = Pop
    /\ caller' = IF Len(stack) = 1 THEN [caller EXCEPT !.pc = "constructed"] ELSE caller
    /\ UNCHANGED <<status, exit_code, exc, out, style, last, prev, keep, gvars>>

\* the caller has the instance: a plain statement drops it, "raise" raises it
UseInstance ==
    /\ Running /\ caller.pc = "constructed"
    /\ IF caller.mode = "call"
       THEN /\ caller' = Idle(caller.kind)
            /\ exc' = exc
       ELSE /\ caller' = [caller EXCEPT !.pc = "raising"]
            /\ exc' = [type |-> caller.kind, code |-> 0, raised_in |-> "caller",
                       depth |-> 0]
    /\ UNCHANGED <<status, exit_code, stack, out, style, last, prev, keep, gvars>>

\* an exception leaves a frame that has no handler for it
Unwind ==
    /\ status = "running" /\ exc.type # "none" /\ stack # <<>>
    /\ stack' = Pop
    /\ UNCHANGED <<status, exit_code, caller, exc, out, style, last, prev, keep, gvars>>

\* the exception reaches the caller: "except CoaError" takes it when its
\* class derives from CoaError, and execution goes on after the try block;
\* otherwise it reaches the interpreter, which ends the process with the
\* code of SystemExit, or with 1 after a traceback
Propagate ==
    /\ status = "running" /\ exc.type # "none" /\ stack = <<>>
    /\ IF caller.mode = "try_raise" /\ IsSubclass(exc.type, "CoaError")
       THEN /\ caller' = [Idle(caller.kind) EXCEPT !.handled = TRUE]
            /\ exc' = NoExc
            /\ UNCHANGED <<status, exit_code>>
       ELSE /\ caller' = [caller EXCEPT !.pc = "terminated"]
            /\ status' = "exited"
            /\ exit_code' = IF exc.type = "SystemExit" THEN exc.code ELSE 1
            /\ exc' = exc
    /\ UNCHANGED <<stack, out, style, last, prev, keep, gvars>>

Next ==
    \/ \E cls \in Kinds, msg \in Messages, mode \in Modes : Construct(cls, msg, mode)
    \/ \E a \in DirectArgs : DirectCall(a)
    \/ CallBanner
    \/ \E raw \in SttyOutputs : Format(raw)
    \/ WriteTitle
    \/ WriteMessage
    \/ BuiltinInit
    \/ Chain
    \/ SysExit
    \/ Return
    \/ UseInstance
    \/ Unwind
    \/ Propagate

Spec == Init /\ [][Next]_vars

\* runs of non-fatal notifications only, in which every call of
\* blinking_centered_text is kept to be compared with the next one; the
\* constructors give the calls that do not blink, the direct calls those
\* that do
InitPairs == EInit /\ GInit /\ keep = TRUE

PairArgs == {a \in DirectArgs : a.blinking = 1}

NextPairs ==
    \/ \E cls \in NonFatal, msg \in Messages : Construct(cls, msg, "call")
    \/ \E a \in PairArgs : DirectCall(a)
    \/ CallBanner
    \/ \E raw \in SttyOutputs : Format(raw)
    \/ WriteTitle
    \/ WriteMessage
    \/ BuiltinInit
    \/ Return
    \/ UseInstance

SpecPairs == InitPairs /\ [][NextPairs]_vars

\* runs of direct calls that differ by their colour names only: every known
\* name in lower case, in upper case and capitalised, and names the tables do
\* not hold ("37" and "41" are the defaults of text_color and bg_color)
UpperChar(c) ==
    IF \E i \in DOMAIN Lowers : Lowers[i] = c
    THEN Uppers[CHOOSE i \in DOMAIN Lowers : Lowers[i] = c]
    ELSE c
Upper(s) == [i \in DOMAIN s |-> UpperChar(s[i])]
Capitalised(s) == [i \in DOMAIN s |-> IF i = 1 THEN UpperChar(s[i]) ELSE s[i]]

UnknownNames == {<<"3","7">>, <<"4","1">>, <<>>, <<"p","i","n","k">>, <<" ","r","e","d">>}
ColourInputs ==
    ColorNames \cup {Upper(n) : n \in ColorNames}
               \cup {Capitalised(n) : n \in ColorNames}
               \cup UnknownNames

\* one colour varied with the other left at its default, or both the same
ColourArgs ==
    {[typemsg |-> DirectTitle, message |-> <<>>, blinking |-> 0,
      text_color |-> c[1], bg_color |-> c[2]] :
        c \in {<<n, <<"4","1">>>> : n \in ColourInputs}
           \cup {<<<<"3","7">>, n>> : n \in ColourInputs}
           \cup {<<n, n>> : n \in ColourInputs}}

InitColours == EInit /\ GInit /\ keep = FALSE

NextColours ==
    \/ \E a \in ColourArgs : DirectCall(a)
    \/ \E raw \in SttyOutputs : Format(raw)
    \/ WriteTitle
    \/ WriteMessage

SpecColours == InitColours /\ [][NextColours]_vars


(* ---------------------------------------------------------------------- *)
(* Geographic name resolution (pyvoa.geo, as the notebook uses it)          *)
(* ---------------------------------------------------------------------- *)
\* the reference table: one canonical record per country
Countries ==
    << [name |-> <<"B","r","a","z","i","l">>, iso2 |-> <<"B","R">>, iso3 |-> <<"B","R","A">>],
       [name |-> <<"A","r","g","e","n","t","i","n","a">>, iso2 |-> <<"A","R">>, iso3 |-> <<"A","R","G">>],
       [name |-> <<"U","n","i","t","e","d"," ","S","t","a","t","e","s">>, iso2 |-> <<"U","S">>, iso3 |-> <<"U","S","A">>] >>

\* the world regions and their member countries
Regions ==
    << [name |-> <<"S","o","u","t","h"," ","A","m","e","r","i","c","a">>, members |-> <<<<"A","R","G">>, <<"B","R","A">>>>] >>

\* the regions of a country (GeoCountry('FRA')) and their subregion codes
CountryRegions ==
    << [name |-> <<"B","r","e","t","a","g","n","e">>, members |-> <<<<"2","2">>, <<"2","9">>, <<"3","5">>, <<"5","6">>>>],
       [name |-> <<"N","o","r","m","a","n","d","i","e">>, members |-> <<<<"1","4">>, <<"2","7">>, <<"5","0">>, <<"6","1">>, <<"7","6">>>>] >>

\* the identifiers a record answers to
Variants(rec) == {rec.name, rec.iso2, rec.iso3}

\* mutant: names are looked up as they are written
NameKeyExact(name) == name

\* the key a name is looked up under
NameKey(name) == Lower(name)

\* the indexes built once from the tables: key -> rows that answer to it
CountryIndex ==
    [k \in {NameKey(v) : v \in UNION {Variants(Countries[i]) : i \in DOMAIN Countries}} |->
        {i \in DOMAIN Countries : \E v \in Variants(Countries[i]) : NameKey(v) = k}]
RegionIndex ==
    [k \in {NameKey(Regions[i].name) : i \in DOMAIN Regions} |->
        {i \in DOMAIN Regions : NameKey(Regions[i].name) = k}]
CountryRegionIndex ==
    [k \in {NameKey(CountryRegions[i].name) : i \in DOMAIN CountryRegions} |->
        {i \in DOMAIN CountryRegions : NameKey(CountryRegions[i].name) = k}]

\* the rows that answer to name
Hits(index, name) == DictGet(index, NameKey(name), {})

First(S) == CHOOSE i \in S : \A j \in S : i <= j

\* mutant: plain list.extend
RECURSIVE AddAll(_, _)
AddAll(acc, codes) ==
    IF codes = <<>> THEN acc ELSE AddAll(Append(acc, Head(codes)), Tail(codes))

\* list.append / list.extend that skip the codes already present
RECURSIVE AddNew(_, _)
AddNew(acc, codes) ==
    IF codes = <<>> THEN acc
    ELSE AddNew(IF \E i \in DOMAIN acc : acc[i] = Head(codes) THEN acc
                ELSE Append(acc, Head(codes)),
                Tail(codes))

\* what one name contributes to the answer of to_standard
Contribution(acc, name, interpret_region) ==
    IF interpret_region /\ Hits(RegionIndex, name) # {}
    THEN AddNew(acc, Regions[First(Hits(RegionIndex, name))].members)
    ELSE IF interpret_region
    THEN AddNew(acc, <<Countries[First(Hits(CountryIndex, name))].iso3>>)
    ELSE Append(acc, Countries[First(Hits(CountryIndex, name))].iso3)

Known(name, interpret_region) ==
    \/ Hits(CountryIndex, name) # {}
    \/ interpret_region /\ Hits(RegionIndex, name) # {}

RECURSIVE Standardize(_, _, _)
Standardize(acc, names, interpret_region) ==
    IF names = <<>> THEN [ok |-> TRUE, value |-> acc, raised |-> "none"]
    ELSE IF ~Known(Head(names), interpret_region)
    THEN [ok |-> FALSE, value |-> <<>>, raised |-> "CoaWhereError"]
    ELSE Standardize(Contribution(acc, Head(names), interpret_region),
                     Tail(names), interpret_region)

\* GeoManager.to_standard(names, interpret_region=...), output 'list', standard iso3
to_standard(names, interpret_region) == Standardize(<<>>, names, interpret_region)

\* GeoCountry.get_subregions_from_region(name=...)
get_subregions_from_region(name) ==
    IF Hits(CountryRegionIndex, name) = {}
    THEN [ok |-> FALSE, value |-> <<>>, raised |-> "CoaWhereError"]
    ELSE [ok |-> TRUE, raised |-> "none",
          value |-> AddNew(<<>>, CountryRegions[First(Hits(CountryRegionIndex, name))].members)]

\* the names the requests are made with
GeoNames == {<<"B","r","a","z","i","l">>, <<"b","r","a">>, <<"S","o","u","t","h"," ","A","m","e","r","i","c","a">>, <<"z","z">>}
RegionNames == {<<"B","r","e","t","a","g","n","e">>, <<"B","r","e","t","a","g","n","E">>, <<"P","a","r","i","s">>}
NameLists == UNION {[1..n -> GeoNames] : n \in 1..MaxListLen}

ToStandard(names, interpret_region) ==
    /\ query' = [op |-> "to_standard", names |-> names,
                 interpret_region |-> interpret_region]
    /\ result' = to_standard(names, interpret_region)
    /\ seen' = IF Len(query.names) = 1 THEN [query |-> query, result |-> result] ELSE seen
    /\ UNCHANGED evars

GetSubregionsFromRegion(name) ==
    /\ query' = [op |-> "get_subregions_from_region", names |-> <<name>>,
                 interpret_region |-> FALSE]
    /\ result' = get_subregions_from_region(name)
    /\ seen' = IF Len(query.names) = 1 THEN [query |-> query, result |-> result] ELSE seen
    /\ UNCHANGED evars

NextGeo ==
    \/ \E names \in NameLists, ir \in BOOLEAN : ToStandard(names, ir)
    \/ \E name \in RegionNames : GetSubregionsFromRegion(name)

InitGeo == EInit /\ GInit /\ keep = FALSE

SpecGeo == InitGeo /\ [][NextGeo]_vars


(* ---------------------------------------------------------------------- *)
(* Properties                                                              *)
(* ---------------------------------------------------------------------- *)
\* the widths "stty size" reported, -1 when the try block fails on its output
WidthRead(raw) ==
    LET fields == Split(raw) IN
    IF Len(fields) = 2 /\ IsInt(fields[2]) THEN IntOf(fields[2]) ELSE -1

\* text is s between two runs of spaces
Padded(text, s) ==
    /\ Len(text) >= Len(s)
    /\ \E l \in 0..(Len(text) - Len(s)) :
          text = Spaces(l) \o s \o Spaces(Len(text) - Len(s) - l)

\* text is s centred in a field of w columns: the spaces on the two sides
\* differ by one at most, and nothing is added when s fills the field
Centred(text, s, w) ==
    /\ Len(text) = (IF Len(s) >= w THEN Len(s) ELSE w)
    /\ \E l \in 0..(Len(text) - Len(s)) :
          /\ text = Spaces(l) \o s \o Spaces(Len(text) - Len(s) - l)
          /\ (l - (Len(text) - Len(s) - l)) \in {-1, 0, 1}

\* the position of the "m" that ends the control sequence a line starts with
StartEnd(line) ==
    IF \E i \in DOMAIN line : line[i] = "m"
    THEN CHOOSE i \in DOMAIN line : line[i] = "m" /\ \A j \in 1..(i - 1) : line[j] # "m"
    ELSE 0

ResetTail == <<ESC, "[", "0", "m", NL>>

\* line is: a control sequence ESC [ parameters m, a text, ESC [ 0 m, newline
WellFormedLine(line) ==
    /\ Len(line) >= 3 + Len(ResetTail)
    /\ line[1] = ESC /\ line[2] = "["
    /\ StartEnd(line) >= 3
    /\ \A i \in 3..(StartEnd(line) - 1) : IsDigit(line[i]) \/ line[i] = ";"
    /\ StartEnd(line) + Len(ResetTail) <= Len(line)
    /\ SubSeq(line, Len(line) - Len(ResetTail) + 1, Len(line)) = ResetTail

\* the text of a well-formed line
LineText(line) == SubSeq(line, StartEnd(line) + 1, Len(line) - Len(ResetTail))

\* the two lines are a banner with this title and this message
IsBanner(l1, l2, title, msg) ==
    /\ WellFormedLine(l1) /\ Padded(LineText(l1), title)
    /\ WellFormedLine(l2) /\ Padded(LineText(l2), msg)

Exited == status = "exited"
BctActive == \E i \in DOMAIN stack : stack[i].fn = BCT

\* the parameters of the control sequence a line starts with
StartParams(line) == SplitSemi(SubSeq(line, 3, StartEnd(line) - 1))

\* the control sequence a line starts with carries the attribute 5
CarriesBlink(line) ==
    \E i \in DOMAIN StartParams(line) : StartParams(line)[i] = <<"5">>

\* the rendition the text of a line is shown in
TextStyle(line) == Term(DefaultStyle, SubSeq(line, 1, StartEnd(line)))

\* the class the caller's statement builds or has built ("" when none)
StatementKind == IF caller.pc = "idle" THEN caller.earlier ELSE caller.kind

C2_RaisedErrorIsCaught ==
    /\ (caller.mode = "try_raise" /\ caller.kind \in Fatal) =>
          /\ ~Exited
          /\ exc.type \in ({"none"} \cup Fatal)
    /\ (caller.pc = "idle" /\ caller.earlier \in Fatal) => caller.handled

\* C3: sys.exit is reached, SystemExit is in flight or the process has ended
\* on a fatal kind only after the title line and the message line of the
\* 'PYCOA Error !' banner have both been written.
C3_BannerBeforeTermination ==
    (\/ (InCtor /\ Stmt = "exit")
     \/ exc.type = "SystemExit"
     \/ (Exited /\ caller.kind \in Fatal))
    => /\ Len(out) >= 2
       /\ IsBanner(out[Len(out) - 1], out[Len(out)], ErrorTitle, caller.message)

\* CoaError.__init__ stands at sys.exit with its banner written
C3_Witness ==
    /\ InCtor /\ Stmt = "exit" /\ caller.kind = "CoaError" /\ Len(out) = 2


\* a call of blinking_centered_text that has written both its lines
Complete(c) == c.valid /\ Len(c.lines) = 2

SameName(a, b) == Lower(a) = Lower(b)
Spells(name, rec) == \E v \in Variants(rec) : SameName(name, v)

NoDuplicates(seq) == \A i, j \in DOMAIN seq : seq[i] = seq[j] => i = j
Range(seq) == {seq[i] : i \in DOMAIN seq}

\* the members of the regions and the countries a list of names stands for
RECURSIVE Members(_)
Members(names) ==
    IF names = <<>> THEN {}
    ELSE LET n == Head(names)
             asRegion == UNION {Range(Regions[i].members) :
                                  i \in {k \in DOMAIN Regions : SameName(n, Regions[k].name)}}
             asCountry == {Countries[i].iso3 :
                             i \in {k \in DOMAIN Countries : Spells(n, Countries[k])}}
         IN  (IF asRegion # {} THEN asRegion ELSE asCountry) \cup Members(Tail(names))

C7_BannerOnceOrTwice ==
    exc.type = "SystemExit" =>
        /\ exc.raised_in = "CoaError"
        /\ IF caller.kind = "CoaError"
           THEN /\ exc.depth = 1
                /\ Len(out) = 2
                /\ IsBanner(out[1], out[2], ErrorTitle, caller.message)
           ELSE /\ caller.kind \in ErrorSubclasses
                /\ exc.depth = 2
                /\ Len(out) = 4
                /\ IsBanner(out[1], out[2], ErrorTitle, caller.message)
                /\ IsBanner(out[3], out[4], ErrorTitle, caller.message)
                /\ prev.args = last.args
                /\ prev.lines = <<out[1], out[2]>> /\ last.lines = <<out[3], out[4]>>
                /\ (WidthRead(prev.stty) = WidthRead(last.stty) => prev.lines = last.lines)

\* CoaDbError has written its four lines and the process has ended
C7_Witness ==
    /\ Exited /\ caller.kind = "CoaDbError" /\ Len(out) = 4
    /\ out[1] = out[3] /\ out[2] = out[4]

C9_TerminalFailureSwallowed ==
    /\ exc.raised_in # BCT
    /\ exc.type \notin {"ValueError", "OSError"}
    /\ Complete(last) =>
          /\ WellFormedLine(last.lines[1]) /\ WellFormedLine(last.lines[2])
          /\ IF WidthRead(last.stty) = -1
             THEN /\ LineText(last.lines[1]) = last.args.typemsg
                  /\ LineText(last.lines[2]) = last.args.message
             ELSE /\ Centred(LineText(last.lines[1]), last.args.typemsg,
                             WidthRead(last.stty))
                  /\ Centred(LineText(last.lines[2]), last.args.message,
                             WidthRead(last.stty))

\* "stty size" printed something that is no width, and both lines are out
C9_Witness ==
    /\ Complete(last) /\ last.stty # <<>> /\ WidthRead(last.stty) = -1
    /\ LineText(last.lines[1]) = last.args.typemsg

\* C10: a call writes two lines at most, and exactly two once it is over,
\* the title first and the message second, each a control sequence, the
\* text, ESC[0m and a newline; the terminal is in its default rendition
\* after every write.
C10_TwoLinesThenReset ==
    /\ Len(last.lines) <= 2
    /\ (last.valid /\ ~BctActive) => Len(last.lines) = 2
    /\ \A i \in DOMAIN last.lines : WellFormedLine(last.lines[i])
    /\ Len(last.lines) >= 1 => Padded(LineText(last.lines[1]), last.args.typemsg)
    /\ Len(last.lines) = 2 => Padded(LineText(last.lines[2]), last.args.message)
    /\ style = DefaultStyle

\* a blinking call is over, after an earlier statement
C10_Witness ==
    /\ Complete(last) /\ ~BctActive /\ last.args.blinking = 1
    /\ caller.earlier # "" /\ style = DefaultStyle

\* C11: every line a call has written starts with a control sequence that
\* carries the attribute 5, and is shown blinking, exactly when the call's
\* "blinking" argument is true; a call made by a constructor has a true
\* "blinking" exactly when the class is CoaError or one of its subclasses, and
\* so has every call of a statement that builds a notification.
C11_BlinkFollowsSeverity ==
    /\ \A c \in {prev, last} : \A i \in DOMAIN c.lines :
          /\ CarriesBlink(c.lines[i]) <=> Truthy(c.args.blinking)
          /\ TextStyle(c.lines[i]).blink <=> Truthy(c.args.blinking)
    /\ \A i \in DOMAIN stack :
          (stack[i].fn = BCT /\ stack[i].ip >= 2) =>
             (CarriesBlink(stack[i].ansi_start) <=> Truthy(stack[i].args.blinking))
    /\ \A i \in DOMAIN stack :
          (stack[i].fn = BCT /\ i > 1) =>
             (Truthy(stack[i].args.blinking) <=> stack[i - 1].fn \in Fatal)
    /\ StatementKind \in Kinds =>
          \A c \in {prev, last} :
             c.valid => (Truthy(c.args.blinking) <=> StatementKind \in Fatal)

\* CoaConnectionError has ended the process with its blinking banners out,
\* after a CoaInfo that did not blink
C11_Witness ==
    /\ Exited /\ caller.kind = "CoaConnectionError" /\ caller.earlier = "CoaInfo"
    /\ Complete(prev) /\ Complete(last)
    /\ CarriesBlink(prev.lines[1]) /\ CarriesBlink(last.lines[2])

\* the title each class is said to write
ClaimedTitle(cls) ==
    CASE cls \in {"CoaInfo", "CoaDBInfo"} -> <<"P","Y","C","O","A"," ","I","n","f","o"," ","!">>
      [] cls = "CoaWarning" -> <<"P","Y","C","O","A"," ","W","a","r","n","i","n","g"," ","!">>
      [] OTHER -> <<"P","Y","C","O","A"," ","E","r","r","o","r"," ","!">>

\* text is s as given when no width was read, s centred to the width otherwise
AsGivenOrCentred(text, s, raw) ==
    IF WidthRead(raw) = -1 THEN text = s ELSE Centred(text, s, WidthRead(raw))

\* C12: a call made by a constructor gets the title of the class's severity
\* ('PYCOA Info !' for CoaInfo and CoaDBInfo, 'PYCOA Warning !' for
\* CoaWarning, 'PYCOA Error !' for CoaError and its seven subclasses) and the
\* message the caller gave; every banner of a statement that builds a
\* notification is that title on its first line and that message on its
\* second, each as given or centred to the width read, nothing else changed.
C12_TitleBySeverity ==
    /\ Cardinality(ErrorSubclasses) = 7
    /\ \A i \in DOMAIN stack :
          (stack[i].fn = BCT /\ i > 1) =>
             /\ stack[i].args.typemsg = ClaimedTitle(stack[i - 1].fn)
             /\ stack[i].args.message = caller.message
             /\ stack[i - 1].fn \in {caller.kind, "CoaError"}
    /\ caller.kind \in Kinds =>
          \A c \in {prev, last} :
             /\ c.valid =>
                   /\ c.args.typemsg = ClaimedTitle(caller.kind)
                   /\ c.args.message = caller.message
             /\ Len(c.lines) >= 1 =>
                   AsGivenOrCentred(LineText(c.lines[1]), ClaimedTitle(caller.kind), c.stty)
             /\ Len(c.lines) = 2 =>
                   AsGivenOrCentred(LineText(c.lines[2]), caller.message, c.stty)
    /\ caller.kind \in Kinds =>
          \A i \in DOMAIN out :
             Padded(LineText(out[i]),
                    IF i % 2 = 1 THEN ClaimedTitle(caller.kind) ELSE caller.message)

\* CoaWarning has handed its instance back with its title and a message
\* centred on the widest terminal
C12_Witness ==
    /\ caller.pc = "constructed" /\ caller.kind = "CoaWarning"
    /\ caller.message # <<>>
    /\ Complete(last) /\ WidthRead(last.stty) = MaxCols
    /\ Len(LineText(last.lines[1])) = MaxCols
    /\ Len(LineText(last.lines[2])) = MaxCols

\* the two characters are the same letter, whatever their case
SameLetter(x, y) ==
    x = y \/ \E i \in DOMAIN Uppers : {x, y} = {Uppers[i], Lowers[i]}

\* the two names are the same word, whatever the case of their letters
SameWord(a, b) ==
    Len(a) = Len(b) /\ \A i \in DOMAIN a : SameLetter(a[i], b[i])

\* the nine colour names and their foreground codes, as claimed
ClaimedColours ==
    << [name |-> <<"b","l","a","c","k">>, fg |-> 30],
       [name |-> <<"r","e","d">>, fg |-> 31],
       [name |-> <<"g","r","e","e","n">>, fg |-> 32],
       [name |-> <<"y","e","l","l","o","w">>, fg |-> 33],
       [name |-> <<"b","l","u","e">>, fg |-> 34],
       [name |-> <<"m","a","g","e","n","t","a">>, fg |-> 35],
       [name |-> <<"c","y","a","n">>, fg |-> 36],
       [name |-> <<"w","h","i","t","e">>, fg |-> 37],
       [name |-> <<"d","e","f","a","u","l","t">>, fg |-> 39] >>

IsKnown(name) == \E i \in DOMAIN ClaimedColours : SameWord(name, ClaimedColours[i].name)
FgOf(name) ==
    ClaimedColours[CHOOSE i \in DOMAIN ClaimedColours :
                       SameWord(name, ClaimedColours[i].name)].fg

\* the codes a call is said to select
ClaimedText(name) == IF IsKnown(name) THEN FgOf(name) ELSE 37
ClaimedBg(name) == IF IsKnown(name) THEN FgOf(name) + 10 ELSE 41

\* the last two parameters of the control sequence a line starts with are
\* these two codes
SelectsColours(line, fg, bg) ==
    LET ps == StartParams(line) IN
    /\ Len(ps) = 3
    /\ IsInt(ps[2]) /\ IntOf(ps[2]) = fg
    /\ IsInt(ps[3]) /\ IntOf(ps[3]) = bg

\* C13: the tables hold the nine names, each background code is the
\* foreground code plus 10, and the two fallback entries exist; every line a
\* call writes selects the foreground code of its text colour and the
\* background code of its background colour, the name matched whatever its
\* case, 37 and 41 when the name is not one of the nine, and is shown in
\* those colours; no exception leaves the call.
C13_ColourSelection ==
    /\ ColorNames = {ClaimedColours[i].name : i \in DOMAIN ClaimedColours}
    /\ Cardinality(ColorNames) = 9
    /\ \A i \in DOMAIN ClaimedColours :
          /\ IsInt(color_codes[ClaimedColours[i].name])
          /\ IntOf(color_codes[ClaimedColours[i].name]) = ClaimedColours[i].fg
          /\ IntOf(bg_codes[ClaimedColours[i].name]) = ClaimedColours[i].fg + 10
    /\ white \in DOMAIN color_codes /\ red \in DOMAIN bg_codes
    /\ exc.type = "none" /\ ~Exited
    /\ (InBct /\ Top.ip >= 2) =>
          SelectsColours(Top.ansi_start, ClaimedText(Top.args.text_color),
                         ClaimedBg(Top.args.bg_color))
    /\ \A i \in DOMAIN last.lines :
          /\ SelectsColours(last.lines[i], ClaimedText(last.args.text_color),
                            ClaimedBg(last.args.bg_color))
          /\ IntOf(TextStyle(last.lines[i]).fg) = ClaimedText(last.args.text_color)
          /\ IntOf(TextStyle(last.lines[i]).bg) = ClaimedBg(last.args.bg_color)

\* a call with an upper-case text colour and an unknown background colour
\* is over
C13_Witness ==
    /\ Complete(last) /\ caller.pc = "idle"
    /\ last.args.text_color = <<"G","R","E","E","N">>
    /\ last.args.bg_color = <<"4","1">>
    /\ SelectsColours(last.lines[2], 32, 41)

====
